---- MODULE Spec2Model ----
(***************************************************************************)
(* Model of the ATtiny10 garland firmware (src/main.cpp): the pattern      *)
(* interpreter of main(), its fade loop, sleep(), setPwmDutyCycle() and     *)
(* the timer-overflow interrupt handler that counts system ticks.          *)
(*                                                                         *)
(* The main thread is a program counter pc over the statements of main(),  *)
(* sleep() and setPwmDutyCycle(); the interrupt handler is one action.     *)
(* Variables named as in the source are the program's variables; the      *)
(* variables of the section "history" only record what has happened and    *)
(* are read by no action guard.                                            *)
(*                                                                         *)
(* Three specifications:                                                   *)
(*   Spec      the whole program from reset.  The handler runs while the   *)
(*             CPU sleeps in sleep_cpu() (the main thread's work between   *)
(*             two sleeps is shorter than a tick).                         *)
(*   SpecFade  one eased transition for every direction and every          *)
(*             duration in MinFade..MaxFadeDelay.                          *)
(*   SpecSleep one call of sleep(n), n in 1..MaxSleepArg, where the        *)
(*             handler may also run while the main thread is awake: once   *)
(*             between two halts of the CPU, at any point but between a    *)
(*             wake-up and the deadline check that follows it (line 42:    *)
(*             every timer overflow wakes the loop, so a tick period is    *)
(*             longer than one turn of the loop).                          *)
(***************************************************************************)
EXTENDS Integers, Sequences, FiniteSets

\* ---------------------------------------------------------------- constants

\* src/main.cpp:14-24
patterns ==
  << <<500, -500, 500, -500, 1, 50, -1, -50, 1, 50, -1, -50, 1, 50, -3000, -2000, 0>>,
     <<1, 500, -1, -500, 0>>,
     <<4000, -1, -2000, 0>>,
     <<1, 250, -1, -250, 0>>,
     <<500, -500, -3000, 0>>,
     <<1, 50, -1, -50, 0>>,
     <<1, -4000, -2000, 0>>,
     <<2000, -1, -100, 1, 100, -1, -100, 1, 100, -1, -100, 1, 100, -1, -100, 1, -2000, -3000, 0>>,
     <<1000, -1000, 0>> >>

\* sizeof(patterns)/sizeof(patterns[0]), src/main.cpp:110
NumPatterns == Len(patterns)

\* src/main.cpp:27
PATTERN_DURATION == 30000

\* src/main.cpp:32
accelerationPoints == <<0, 30, 60, 80, 10, 255>>

\* sizeof(accelerationPoints)/sizeof(accelerationPoints[0]), src/main.cpp:162
NumPoints == Len(accelerationPoints)

\* the magnitude from which a transition is eased, src/main.cpp:140
MinFade == 128

\* the number of time slices of a fade, src/main.cpp:149
Slices == 64

\* the exclusive upper limit of the fade index k, src/main.cpp:166
Levels == 128

\* the brightness of the "on" state, src/main.cpp:142
FullOn == 127

\* uint8_t and uint16_t arithmetic
Byte == 256
Word == 65536

\* ------------------------------------------------------------------- bounds

\* SpecFade: the largest duration of an eased transition
MaxFadeDelay == 200

\* SpecSleep: the largest argument of sleep() and the largest counter value
\* at the call
MaxSleepArg == 4
MaxStartTicks == 3

\* -------------------------------------------------------------------- state

VARIABLES
  pc,         \* the statement the main thread executes next
  asleep,     \* the CPU is halted in sleep_cpu()
  SREG_I,     \* global interrupt enable flag (cli/sei)
  ticks,      \* volatile uint16_t ticks
  OCR0A,      \* PWM compare register
  state,      \* bool state of main()
  i, j,       \* pattern index, instruction index
  delay, sign,
  remainder, step, k,
  value,      \* value of the fade loop / parameter of setPwmDutyCycle
  pwmRet,     \* where setPwmDutyCycle returns to
  sleepDelay, \* parameter of sleep()
  end,        \* uint16_t end of sleep()
  sleepRet,   \* where sleep() returns to
  late,       \* the handler has run in the current awake period
  \* history
  kind,       \* what the current instruction is: "delay", "instant", "fade"
  nWrites,    \* writes of OCR0A by the current instruction
  nSleeps,    \* calls of sleep() by the current instruction
  sleepSum,   \* sum of the arguments of those calls
  elapsed,    \* handler runs since the current pattern was entered
  sinceCall   \* handler runs since the current sleep() call read ticks

prog == <<pc, asleep, SREG_I, ticks, OCR0A, state, i, j, delay, sign,
          remainder, step, k, value, pwmRet, sleepDelay, end, sleepRet, late>>
hist == <<kind, nWrites, nSleeps, sleepSum, elapsed, sinceCall>>
vars == <<prog, hist>>

\* patterns[i][j] with the source's 0-based indices
PatAt(p, q) == patterns[p + 1][q + 1]

\* accelerationPoints[n] with the source's 0-based index
AccAt(n) == accelerationPoints[n + 1]

\* index of the 0 sentinel of pattern p
SentinelIndex(p) == Len(patterns[p + 1]) - 1

Abs(x) == IF x < 0 THEN -x ELSE x

\* ----------------------------------------------------------- after setup()

Init ==
  /\ pc = "reset_ticks"
  /\ asleep = FALSE
  /\ SREG_I = TRUE
  /\ ticks = 0
  /\ OCR0A = 0
  /\ state = FALSE
  /\ i = 0
  /\ j = 0
  /\ delay = 0
  /\ sign = FALSE
  /\ remainder = 0
  /\ step = 0
  /\ k = 0
  /\ value = 0
  /\ pwmRet = "none"
  /\ sleepDelay = 0
  /\ end = 0
  /\ sleepRet = "none"
  /\ late = FALSE
  /\ kind = "none"
  /\ nWrites = 0
  /\ nSleeps = 0
  /\ sleepSum = 0
  /\ elapsed = 0
  /\ sinceCall = 0

\* ------------------------------------------------------- interrupt handler

\* ISR(TIM0_OVF_vect): ++ticks; the interrupt also ends sleep_cpu()
TIM0_OVF_vect ==
  /\ SREG_I
  /\ ticks' = (ticks + 1) % Word
  /\ asleep' = FALSE
  /\ elapsed' = elapsed + 1
  /\ sinceCall' = sinceCall + 1
  /\ UNCHANGED <<pc, SREG_I, OCR0A, state, i, j, delay, sign, remainder, step,
                 k, value, pwmRet, sleepDelay, end, sleepRet,
                 kind, nWrites, nSleeps, sleepSum>>

\* the timer overflows while the CPU is halted
TickAsleep ==
  /\ asleep
  /\ TIM0_OVF_vect
  /\ UNCHANGED late

\* the timer overflows while the main thread runs: at most once between two
\* halts of the CPU, and not between a wake-up and the check of line 54 that
\* follows it
TickAwake ==
  /\ ~asleep
  /\ ~late
  /\ pc \notin {"sleep_check", "halt"}
  /\ TIM0_OVF_vect
  /\ late' = TRUE

\* ------------------------------------------------------------------ sleep()

\* uint16_t end = ticks + delay;
SleepBegin ==
  /\ pc = "sleep_begin" /\ ~asleep
  /\ end' = (ticks + sleepDelay) % Word
  /\ sinceCall' = 0
  /\ pc' = "sleep_cpu"
  /\ UNCHANGED <<asleep, SREG_I, ticks, OCR0A, state, i, j, delay, sign,
                 remainder, step, k, value, pwmRet, sleepDelay, sleepRet, late,
                 kind, nWrites, nSleeps, sleepSum, elapsed>>

\* set_sleep_mode(SLEEP_MODE_IDLE); sleep_enable(); sleep_cpu(); sleep_disable();
SleepCpu ==
  /\ pc = "sleep_cpu" /\ ~asleep
  /\ asleep' = TRUE
  /\ late' = FALSE
  /\ pc' = "sleep_check"
  /\ UNCHANGED <<SREG_I, ticks, OCR0A, state, i, j, delay, sign, remainder,
                 step, k, value, pwmRet, sleepDelay, end, sleepRet, hist>>

\* SleepCheck with the loop condition end >= ticks
SleepCheckOffByOne ==
  /\ pc = "sleep_check" /\ ~asleep
  /\ pc' = IF end >= ticks THEN "sleep_cpu" ELSE sleepRet
  /\ UNCHANGED <<asleep, SREG_I, ticks, OCR0A, state, i, j, delay, sign,
                 remainder, step, k, value, pwmRet, sleepDelay, end, sleepRet,
                 late, hist>>

\* while (end > ticks);
SleepCheck ==
  /\ pc = "sleep_check" /\ ~asleep
  /\ pc' = IF end > ticks THEN "sleep_cpu" ELSE sleepRet
  /\ UNCHANGED <<asleep, SREG_I, ticks, OCR0A, state, i, j, delay, sign,
                 remainder, step, k, value, pwmRet, sleepDelay, end, sleepRet,
                 late, hist>>

\* ------------------------------------------------------- setPwmDutyCycle()

\* Cli without the cli() of line 59
CliMissing ==
  /\ pc = "cli" /\ ~asleep
  /\ pc' = "write_ocr"
  /\ UNCHANGED <<asleep, SREG_I, ticks, OCR0A, state, i, j, delay, sign,
                 remainder, step, k, value, pwmRet, sleepDelay, end, sleepRet,
                 late, hist>>

Cli ==
  /\ pc = "cli" /\ ~asleep
  /\ SREG_I' = FALSE
  /\ pc' = "write_ocr"
  /\ UNCHANGED <<asleep, ticks, OCR0A, state, i, j, delay, sign, remainder,
                 step, k, value, pwmRet, sleepDelay, end, sleepRet, late, hist>>

\* OCR0A = value;
WriteOCR0A ==
  /\ pc = "write_ocr" /\ ~asleep
  /\ OCR0A' = value
  /\ nWrites' = nWrites + 1
  /\ pc' = "sei"
  /\ UNCHANGED <<asleep, SREG_I, ticks, state, i, j, delay, sign, remainder,
                 step, k, value, pwmRet, sleepDelay, end, sleepRet, late,
                 kind, nSleeps, sleepSum, elapsed, sinceCall>>

Sei ==
  /\ pc = "sei" /\ ~asleep
  /\ SREG_I' = TRUE
  /\ pc' = pwmRet
  /\ UNCHANGED <<asleep, ticks, OCR0A, state, i, j, delay, sign, remainder,
                 step, k, value, pwmRet, sleepDelay, end, sleepRet, late, hist>>

\* ------------------------------------------------------------------- main()

\* ResetTicks without the ticks = 0 of line 113
ResetTicksMissing ==
  /\ pc = "reset_ticks" /\ ~asleep
  /\ elapsed' = 0
  /\ pc' = "for_j_init"
  /\ UNCHANGED <<asleep, SREG_I, ticks, OCR0A, state, i, j, delay, sign,
                 remainder, step, k, value, pwmRet, sleepDelay, end, sleepRet,
                 late, kind, nWrites, nSleeps, sleepSum, sinceCall>>

\* line 113: ticks = 0;
ResetTicks ==
  /\ pc = "reset_ticks" /\ ~asleep
  /\ ticks' = 0
  /\ elapsed' = 0
  /\ pc' = "for_j_init"
  /\ UNCHANGED <<asleep, SREG_I, OCR0A, state, i, j, delay, sign, remainder,
                 step, k, value, pwmRet, sleepDelay, end, sleepRet, late,
                 kind, nWrites, nSleeps, sleepSum, sinceCall>>

\* ForJInit with the counter reset of line 113 placed inside the do loop
ForJInitReset ==
  /\ pc = "for_j_init" /\ ~asleep
  /\ j' = 0
  /\ ticks' = 0
  /\ pc' = "for_j_cond"
  /\ UNCHANGED <<asleep, SREG_I, OCR0A, state, i, delay, sign, remainder,
                 step, k, value, pwmRet, sleepDelay, end, sleepRet, late, hist>>

\* line 119: uint8_t j = 0
ForJInit ==
  /\ pc = "for_j_init" /\ ~asleep
  /\ j' = 0
  /\ pc' = "for_j_cond"
  /\ UNCHANGED <<asleep, SREG_I, ticks, OCR0A, state, i, delay, sign, remainder,
                 step, k, value, pwmRet, sleepDelay, end, sleepRet, late, hist>>

\* ForJCond with the loop condition patterns[i][j] > 0
ForJCondPositive ==
  /\ pc = "for_j_cond" /\ ~asleep
  /\ pc' = IF PatAt(i, j) > 0 THEN "decode" ELSE "budget_check"
  /\ UNCHANGED <<asleep, SREG_I, ticks, OCR0A, state, i, j, delay, sign,
                 remainder, step, k, value, pwmRet, sleepDelay, end, sleepRet,
                 late, hist>>

\* line 119: patterns[i][j] != 0
ForJCond ==
  /\ pc = "for_j_cond" /\ ~asleep
  /\ pc' = IF PatAt(i, j) # 0 THEN "decode" ELSE "budget_check"
  /\ UNCHANGED <<asleep, SREG_I, ticks, OCR0A, state, i, j, delay, sign,
                 remainder, step, k, value, pwmRet, sleepDelay, end, sleepRet,
                 late, hist>>

\* Decode with the sign inverted (sign = true for a negative instruction)
DecodeInverted ==
  /\ pc = "decode" /\ ~asleep
  /\ delay' = Abs(PatAt(i, j))
  /\ sign' = (PatAt(i, j) < 0)
  /\ kind' = "none"
  /\ nWrites' = 0
  /\ nSleeps' = 0
  /\ sleepSum' = 0
  /\ pc' = "dispatch"
  /\ UNCHANGED <<asleep, SREG_I, ticks, OCR0A, state, i, j, remainder, step, k,
                 value, pwmRet, sleepDelay, end, sleepRet, late,
                 elapsed, sinceCall>>

\* lines 121-129: the magnitude and the sign of the instruction
Decode ==
  /\ pc = "decode" /\ ~asleep
  /\ delay' = Abs(PatAt(i, j))
  /\ sign' = ~(PatAt(i, j) < 0)
  /\ kind' = "none"
  /\ nWrites' = 0
  /\ nSleeps' = 0
  /\ sleepSum' = 0
  /\ pc' = "dispatch"
  /\ UNCHANGED <<asleep, SREG_I, ticks, OCR0A, state, i, j, remainder, step, k,
                 value, pwmRet, sleepDelay, end, sleepRet, late,
                 elapsed, sinceCall>>

\* PureDelay passing the signed instruction instead of its magnitude
PureDelayRaw ==
  /\ pc = "dispatch" /\ ~asleep
  /\ state = sign
  /\ sleepDelay' = PatAt(i, j) % Word
  /\ sleepRet' = "for_j_inc"
  /\ kind' = "delay"
  /\ nSleeps' = nSleeps + 1
  /\ sleepSum' = sleepSum + (PatAt(i, j) % Word)
  /\ pc' = "sleep_begin"
  /\ UNCHANGED <<asleep, SREG_I, ticks, OCR0A, state, i, j, delay, sign,
                 remainder, step, k, value, pwmRet, end, late,
                 nWrites, elapsed, sinceCall>>

\* lines 132-135: if (state == sign) sleep(delay);
PureDelay ==
  /\ pc = "dispatch" /\ ~asleep
  /\ state = sign
  /\ sleepDelay' = delay
  /\ sleepRet' = "for_j_inc"
  /\ kind' = "delay"
  /\ nSleeps' = nSleeps + 1
  /\ sleepSum' = sleepSum + delay
  /\ pc' = "sleep_begin"
  /\ UNCHANGED <<asleep, SREG_I, ticks, OCR0A, state, i, j, delay, sign,
                 remainder, step, k, value, pwmRet, end, late,
                 nWrites, elapsed, sinceCall>>

\* InstantTransition with the two boundary values swapped
InstantTransitionSwapped ==
  /\ pc = "dispatch" /\ ~asleep
  /\ state # sign
  /\ delay < MinFade
  /\ value' = IF sign THEN 0 ELSE FullOn
  /\ pwmRet' = "set_state"
  /\ kind' = "instant"
  /\ pc' = "cli"
  /\ UNCHANGED <<asleep, SREG_I, ticks, OCR0A, state, i, j, delay, sign,
                 remainder, step, k, sleepDelay, end, sleepRet, late,
                 nWrites, nSleeps, sleepSum, elapsed, sinceCall>>

\* lines 140-143: if (delay < 128) setPwmDutyCycle(sign ? 127 : 0);
InstantTransition ==
  /\ pc = "dispatch" /\ ~asleep
  /\ state # sign
  /\ delay < MinFade
  /\ value' = IF sign THEN FullOn ELSE 0
  /\ pwmRet' = "set_state"
  /\ kind' = "instant"
  /\ pc' = "cli"
  /\ UNCHANGED <<asleep, SREG_I, ticks, OCR0A, state, i, j, delay, sign,
                 remainder, step, k, sleepDelay, end, sleepRet, late,
                 nWrites, nSleeps, sleepSum, elapsed, sinceCall>>

\* lines 149-166: remainder, the initial step, uint8_t k = 1
FadeInit ==
  /\ pc = "dispatch" /\ ~asleep
  /\ state # sign
  /\ ~(delay < MinFade)
  /\ remainder' = (delay % Slices) % Byte
  /\ step' = IF sign THEN 1 ELSE NumPoints - 2
  /\ k' = 1
  /\ kind' = "fade"
  /\ pc' = "fade_cond"
  /\ UNCHANGED <<asleep, SREG_I, ticks, OCR0A, state, i, j, delay, sign, value,
                 pwmRet, sleepDelay, end, sleepRet, late,
                 nWrites, nSleeps, sleepSum, elapsed, sinceCall>>

\* line 166: k < 128
FadeCond ==
  /\ pc = "fade_cond" /\ ~asleep
  /\ pc' = IF k < Levels THEN "fade_body" ELSE "set_state"
  /\ UNCHANGED <<asleep, SREG_I, ticks, OCR0A, state, i, j, delay, sign,
                 remainder, step, k, value, pwmRet, sleepDelay, end, sleepRet,
                 late, hist>>

\* FadeValue one level too high (k for k - 1, 129 - k for 128 - k)
FadeValueOffByOne(sgn, kk) ==
  IF sgn THEN kk % Byte ELSE (Levels + 1 - kk) % Byte

\* FadeValue dimming down to 0 (127 - k for 128 - k)
FadeValueToZero(sgn, kk) ==
  IF sgn THEN (kk - 1) % Byte ELSE (Levels - 1 - kk) % Byte

\* lines 172, 182: the brightness of this iteration
FadeValue(sgn, kk) == IF sgn THEN (kk - 1) % Byte ELSE (Levels - kk) % Byte

\* FadeStep with strict comparisons (> for >=, < for <=)
FadeStepStrict(sgn, stp, val) ==
  IF sgn
    THEN IF val > AccAt(stp) THEN (stp + 1) % Byte ELSE stp
    ELSE IF val < AccAt(stp - 1) THEN (stp - 1) % Byte ELSE stp

\* FadeStep reading the table one entry off (step - 1 for step, step - 2 for
\* step - 1, the first entry at the lower end)
FadeStepWrongIndex(sgn, stp, val) ==
  IF sgn
    THEN IF val >= AccAt(stp - 1) THEN (stp + 1) % Byte ELSE stp
    ELSE IF val <= AccAt(IF stp >= 2 THEN stp - 2 ELSE 0) THEN (stp - 1) % Byte ELSE stp

\* lines 175-178, 185-188: the step after this iteration's acceleration check
FadeStep(sgn, stp, val) ==
  IF sgn
    THEN IF val >= AccAt(stp) THEN (stp + 1) % Byte ELSE stp
    ELSE IF val <= AccAt(stp - 1) THEN (stp - 1) % Byte ELSE stp

\* lines 168-192: value, step, setPwmDutyCycle(value)
FadeBody ==
  /\ pc = "fade_body" /\ ~asleep
  /\ value' = FadeValue(sign, k)
  /\ step' = FadeStep(sign, step, FadeValue(sign, k))
  /\ pwmRet' = "fade_sleep"
  /\ pc' = "cli"
  /\ UNCHANGED <<asleep, SREG_I, ticks, OCR0A, state, i, j, delay, sign,
                 remainder, k, sleepDelay, end, sleepRet, late, hist>>

\* lines 198, 202: the argument of this iteration's sleep()
SliceDelay(d, rem) == IF rem # 0 THEN (d \div Slices) + 1 ELSE d \div Slices

\* lines 195-203: if (remainder) { --remainder; sleep(delay/64 + 1); } else sleep(delay/64);
FadeSleep ==
  /\ pc = "fade_sleep" /\ ~asleep
  /\ remainder' = IF remainder # 0 THEN remainder - 1 ELSE remainder
  /\ sleepDelay' = SliceDelay(delay, remainder)
  /\ sleepRet' = "fade_inc"
  /\ nSleeps' = nSleeps + 1
  /\ sleepSum' = sleepSum + SliceDelay(delay, remainder)
  /\ pc' = "sleep_begin"
  /\ UNCHANGED <<asleep, SREG_I, ticks, OCR0A, state, i, j, delay, sign, step,
                 k, value, pwmRet, end, late,
                 kind, nWrites, elapsed, sinceCall>>

\* line 166: k += step
FadeInc ==
  /\ pc = "fade_inc" /\ ~asleep
  /\ k' = (k + step) % Byte
  /\ pc' = "fade_cond"
  /\ UNCHANGED <<asleep, SREG_I, ticks, OCR0A, state, i, j, delay, sign,
                 remainder, step, value, pwmRet, sleepDelay, end, sleepRet,
                 late, hist>>

\* line 207: state = sign;
SetState ==
  /\ pc = "set_state" /\ ~asleep
  /\ state' = sign
  /\ pc' = "for_j_inc"
  /\ UNCHANGED <<asleep, SREG_I, ticks, OCR0A, i, j, delay, sign, remainder,
                 step, k, value, pwmRet, sleepDelay, end, sleepRet, late, hist>>

\* line 119: j++
ForJInc ==
  /\ pc = "for_j_inc" /\ ~asleep
  /\ j' = (j + 1) % Byte
  /\ pc' = "for_j_cond"
  /\ UNCHANGED <<asleep, SREG_I, ticks, OCR0A, state, i, delay, sign, remainder,
                 step, k, value, pwmRet, sleepDelay, end, sleepRet, late, hist>>

\* BudgetCheck with the loop condition inverted
BudgetCheckInverted ==
  /\ pc = "budget_check" /\ ~asleep
  /\ pc' = IF ticks >= PATTERN_DURATION THEN "for_j_init" ELSE "for_i_next"
  /\ UNCHANGED <<asleep, SREG_I, ticks, OCR0A, state, i, j, delay, sign,
                 remainder, step, k, value, pwmRet, sleepDelay, end, sleepRet,
                 late, hist>>

\* line 210: while (ticks < PATTERN_DURATION);
BudgetCheck ==
  /\ pc = "budget_check" /\ ~asleep
  /\ pc' = IF ticks < PATTERN_DURATION THEN "for_j_init" ELSE "for_i_next"
  /\ UNCHANGED <<asleep, SREG_I, ticks, OCR0A, state, i, j, delay, sign,
                 remainder, step, k, value, pwmRet, sleepDelay, end, sleepRet,
                 late, hist>>

\* ForINext also switching the LED off for the new pattern
ForINextResetLed ==
  /\ pc = "for_i_next" /\ ~asleep
  /\ i' = IF i + 1 < NumPatterns THEN i + 1 ELSE 0
  /\ state' = FALSE
  /\ OCR0A' = 0
  /\ pc' = "reset_ticks"
  /\ UNCHANGED <<asleep, SREG_I, ticks, j, delay, sign, remainder,
                 step, k, value, pwmRet, sleepDelay, end, sleepRet, late, hist>>

\* ForINext without the i++ of line 110
ForINextStuck ==
  /\ pc = "for_i_next" /\ ~asleep
  /\ pc' = "reset_ticks"
  /\ UNCHANGED <<asleep, SREG_I, ticks, OCR0A, state, i, j, delay, sign,
                 remainder, step, k, value, pwmRet, sleepDelay, end, sleepRet,
                 late, hist>>

\* lines 107-110: i++, i < 9, and the restart of the for loop by while (true)
ForINext ==
  /\ pc = "for_i_next" /\ ~asleep
  /\ i' = IF i + 1 < NumPatterns THEN i + 1 ELSE 0
  /\ pc' = "reset_ticks"
  /\ UNCHANGED <<asleep, SREG_I, ticks, OCR0A, state, j, delay, sign, remainder,
                 step, k, value, pwmRet, sleepDelay, end, sleepRet, late, hist>>

\* ----------------------------------------------------------- specifications

Sleep == SleepBegin \/ SleepCpu \/ SleepCheck

SetPwmDutyCycle == Cli \/ WriteOCR0A \/ Sei

Fade == FadeInit \/ FadeCond \/ FadeBody \/ FadeSleep \/ FadeInc

Interpreter ==
  \/ ResetTicks \/ ForJInit \/ ForJCond \/ Decode \/ PureDelay
  \/ InstantTransition \/ SetState \/ ForJInc \/ BudgetCheck \/ ForINext

\* every step of the main thread
Main == Interpreter \/ Fade \/ SetPwmDutyCycle \/ Sleep

Next == Main \/ TickAsleep

Spec == Init /\ [][Next]_vars

\* the whole program where the main thread keeps running and the timer keeps
\* overflowing
SpecLive == Init /\ [][Next]_vars /\ WF_vars(Main) /\ WF_vars(TickAsleep)

\* one eased transition, started at the dispatch of its instruction
InitFade ==
  /\ pc = "dispatch"
  /\ asleep = FALSE
  /\ SREG_I = TRUE
  /\ ticks = 0
  /\ sign \in BOOLEAN
  /\ state = ~sign
  /\ OCR0A \in (IF sign THEN {0, 1} ELSE {FullOn - 2, FullOn})
  /\ delay \in MinFade..MaxFadeDelay
  /\ i = 0
  /\ j = 0
  /\ remainder = 0
  /\ step = 0
  /\ k = 0
  /\ value = 0
  /\ pwmRet = "none"
  /\ sleepDelay = 0
  /\ end = 0
  /\ sleepRet = "none"
  /\ late = FALSE
  /\ kind = "none"
  /\ nWrites = 0
  /\ nSleeps = 0
  /\ sleepSum = 0
  /\ elapsed = 0
  /\ sinceCall = 0

NextFade == Fade \/ SetPwmDutyCycle \/ Sleep \/ SetState \/ TickAsleep

SpecFade == InitFade /\ [][NextFade]_vars

\* one call of sleep()
InitSleep ==
  /\ pc = "sleep_begin"
  /\ asleep = FALSE
  /\ SREG_I = TRUE
  /\ ticks \in 0..MaxStartTicks
  /\ sleepDelay \in 1..MaxSleepArg
  /\ sleepRet = "halt"
  /\ late \in BOOLEAN
  /\ OCR0A = 0
  /\ state = FALSE
  /\ i = 0
  /\ j = 0
  /\ delay = 0
  /\ sign = FALSE
  /\ remainder = 0
  /\ step = 0
  /\ k = 0
  /\ value = 0
  /\ pwmRet = "none"
  /\ end = 0
  /\ kind = "none"
  /\ nWrites = 0
  /\ nSleeps = 0
  /\ sleepSum = 0
  /\ elapsed = 0
  /\ sinceCall = 0

NextSleep == Sleep \/ TickAsleep \/ TickAwake

SpecSleep == InitSleep /\ [][NextSleep]_vars

\* one call of setPwmDutyCycle(), the handler running while the main thread is
\* awake
InitPwm ==
  /\ pc = "cli"
  /\ asleep = FALSE
  /\ SREG_I = TRUE
  /\ ticks \in 0..MaxStartTicks
  /\ value \in 0..FullOn
  /\ pwmRet = "returned"
  /\ late = FALSE
  /\ OCR0A \in {0, FullOn}
  /\ state = FALSE
  /\ i = 0
  /\ j = 0
  /\ delay = 0
  /\ sign = FALSE
  /\ remainder = 0
  /\ step = 0
  /\ k = 0
  /\ sleepDelay = 0
  /\ end = 0
  /\ sleepRet = "none"
  /\ kind = "none"
  /\ nWrites = 0
  /\ nSleeps = 0
  /\ sleepSum = 0
  /\ elapsed = 0
  /\ sinceCall = 0

NextPwm == SetPwmDutyCycle \/ TickAwake

SpecPwm == InitPwm /\ [][NextPwm]_vars

\* -------------------------------------- the counter accessed byte by byte

\* the last counter value of the 256-tick page in which the budget of line 210
\* runs out: its low byte is 0xFF
PageEnd == (PATTERN_DURATION \div Byte) * Byte + (Byte - 1)

\* line 45: the first of the two byte loads of ticks, either byte first; end
\* holds the part of the counter already loaded
SleepReadFirst ==
  /\ pc = "sleep_begin" /\ ~asleep
  /\ \E first \in {"lo", "hi"} :
       /\ end' = IF first = "lo" THEN ticks % Byte ELSE (ticks \div Byte) * Byte
       /\ pc' = IF first = "lo" THEN "sleep_read_hi" ELSE "sleep_read_lo"
  /\ sinceCall' = 0
  /\ UNCHANGED <<asleep, SREG_I, ticks, OCR0A, state, i, j, delay, sign,
                 remainder, step, k, value, pwmRet, sleepDelay, sleepRet, late,
                 kind, nWrites, nSleeps, sleepSum, elapsed>>

\* line 45: the second byte load of ticks and the addition of delay
SleepReadSecond ==
  /\ pc \in {"sleep_read_hi", "sleep_read_lo"} /\ ~asleep
  /\ end' = (end + sleepDelay
               + (IF pc = "sleep_read_hi" THEN (ticks \div Byte) * Byte
                                          ELSE ticks % Byte)) % Word
  /\ pc' = "sleep_cpu"
  /\ UNCHANGED <<asleep, SREG_I, ticks, OCR0A, state, i, j, delay, sign,
                 remainder, step, k, value, pwmRet, sleepDelay, sleepRet, late,
                 hist>>

\* line 113: the first of the two byte stores of ticks = 0, either byte first
ResetWriteFirst ==
  /\ pc = "reset_ticks" /\ ~asleep
  /\ \E first \in {"lo", "hi"} :
       /\ ticks' = IF first = "lo" THEN (ticks \div Byte) * Byte ELSE ticks % Byte
       /\ pc' = IF first = "lo" THEN "reset_write_hi" ELSE "reset_write_lo"
  /\ elapsed' = 0
  /\ sinceCall' = 0
  /\ UNCHANGED <<asleep, SREG_I, OCR0A, state, i, j, delay, sign, remainder,
                 step, k, value, pwmRet, sleepDelay, end, sleepRet, late,
                 kind, nWrites, nSleeps, sleepSum>>

\* line 113: the second byte store of ticks = 0
ResetWriteSecond ==
  /\ pc \in {"reset_write_hi", "reset_write_lo"} /\ ~asleep
  /\ ticks' = IF pc = "reset_write_hi" THEN ticks % Byte
                                       ELSE (ticks \div Byte) * Byte
  /\ pc' = "for_j_init"
  /\ UNCHANGED <<asleep, SREG_I, OCR0A, state, i, j, delay, sign, remainder,
                 step, k, value, pwmRet, sleepDelay, end, sleepRet, late, hist>>

\* the counter reset of line 113 or one call of sleep(), the counter near the
\* end of a 256-tick page and the handler running while the main thread is
\* awake
InitBytes ==
  /\ pc \in {"reset_ticks", "sleep_begin"}
  /\ asleep = FALSE
  /\ SREG_I = TRUE
  /\ ticks \in (PageEnd - MaxStartTicks)..PageEnd
  /\ sleepDelay \in 1..MaxSleepArg
  /\ sleepRet = "halt"
  /\ late \in BOOLEAN
  /\ OCR0A = 0
  /\ state = FALSE
  /\ i = 0
  /\ j = 0
  /\ delay = 0
  /\ sign = FALSE
  /\ remainder = 0
  /\ step = 0
  /\ k = 0
  /\ value = 0
  /\ pwmRet = "none"
  /\ end = 0
  /\ kind = "none"
  /\ nWrites = 0
  /\ nSleeps = 0
  /\ sleepSum = 0
  /\ elapsed = ticks
  /\ sinceCall = 0

NextBytes ==
  \/ ResetWriteFirst \/ ResetWriteSecond
  \/ SleepReadFirst \/ SleepReadSecond \/ SleepCpu \/ SleepCheck
  \/ TickAsleep \/ TickAwake

SpecBytes == InitBytes /\ [][NextBytes]_vars

\* ------------------------------------------------------------------- claims

\* the fade loop of the current instruction has ended (line 166 left, line 207
\* not yet executed)
FadeDone == pc = "set_state" /\ kind = "fade"

\* C1: when the fade loop of an eased transition has ended, the last value
\* written to the compare register is 127 after brightening and 0 after
\* dimming.
C1_FadeEndsAtBoundary ==
  FadeDone => OCR0A = (IF sign THEN FullOn ELSE 0)

\* C2: when the fade loop of an eased transition has ended, the arguments of
\* its sleep() calls add up to the duration of the instruction.
C2_SleepSumIsDelay ==
  FadeDone => sleepSum = delay

StepMonotone ==
  (kind = "fade" /\ kind' = "fade") =>
    (IF sign THEN step' >= step ELSE step' <= step)

\* C4 as stated: the step is monotone during a fade and lies in [1, maxStep],
\* maxStep = 4 being the number of interior table entries.
C4_StepWithinInterior ==
  /\ [](kind = "fade" => step \in 1..(NumPoints - 2))
  /\ [][StepMonotone]_vars

\* C4 amended: the step is monotone during a fade and lies in [1, 5], 5 being
\* the index of the last table entry; when dimming it lies in [1, 4].
C4_StepWithinTable ==
  /\ [](kind = "fade" => step \in 1..(NumPoints - 1))
  /\ [](kind = "fade" /\ ~sign => step \in 1..(NumPoints - 2))
  /\ [][StepMonotone]_vars

\* a brightening fade has ended with the step at the last table index, having
\* started at 1
C4_Witness ==
  FadeDone /\ sign /\ step = NumPoints - 1

\* C5: an instruction of magnitude below 128 that changes the logical state
\* writes the compare register exactly once, with 127 for a positive and 0 for
\* a negative instruction, and calls sleep() not at all, up to the decoding of
\* the next instruction.
C5_InstantTransition ==
  kind = "instant" =>
    /\ nSleeps = 0
    /\ nWrites <= 1
    /\ pc \notin {"cli", "write_ocr"} =>
         nWrites = 1 /\ OCR0A = (IF sign THEN FullOn ELSE 0)

\* an instant transition to off is complete and the next instruction is about
\* to be decoded
C5_Witness ==
  kind = "instant" /\ pc = "decode" /\ ~sign /\ OCR0A = 0 /\ nWrites = 1

\* C6: an instruction whose sign equals the logical state calls sleep() once,
\* with its magnitude, writes the compare register not at all and leaves the
\* register and the logical state as they are.
C6_PureDelay ==
  /\ [](kind = "delay" =>
          nSleeps = 1 /\ sleepDelay = delay /\ sleepSum = delay /\ nWrites = 0)
  /\ [][kind' = "delay" => OCR0A' = OCR0A /\ state' = state /\ state = sign]_vars

\* a negative pure delay has returned from its sleep() call
C6_Witness ==
  kind = "delay" /\ pc = "for_j_inc" /\ ~sign /\ sinceCall = delay

\* the steps of the pattern and pass loops
PatternSwitching ==
  /\ i' # i =>
       /\ pc = "for_i_next"
       /\ elapsed >= PATTERN_DURATION
       /\ i' = (i + 1) % NumPatterns
       /\ pc' = "reset_ticks"
  /\ pc' = "for_i_next" => pc = "budget_check" /\ elapsed >= PATTERN_DURATION
  /\ pc = "budget_check" /\ elapsed < PATTERN_DURATION =>
       pc' = "for_j_init" /\ i' = i
  /\ pc' = "budget_check" => pc = "for_j_cond" /\ PatAt(i, j) = 0
  /\ pc = "reset_ticks" => pc' = "for_j_init"
  /\ pc = "for_j_init" => pc' = "for_j_cond" /\ j' = 0

\* C7: pattern i is left only at a pass boundary with at least 30000 ticks
\* elapsed since it began, for pattern (i+1) mod 9 from its first instruction;
\* a pass boundary with fewer elapsed ticks restarts pattern i from its first
\* instruction.
C7_SwitchAtPassBoundary == [][PatternSwitching]_vars

\* pattern 0 has been left for pattern 1 with its budget used up
C7_Witness ==
  pc = "reset_ticks" /\ i = 1 /\ elapsed >= PATTERN_DURATION

\* the steps of the instruction index
IndexSteps ==
  /\ j' # j => \/ j' = j + 1 /\ pc = "for_j_inc"
               \/ j' = 0 /\ pc = "for_j_init"
  /\ pc = "for_j_cond" =>
       pc' = IF PatAt(i, j) = 0 THEN "budget_check" ELSE "decode"

\* C8: a pass reads the indices 0, 1, 2, ... in order, stops at the first 0
\* entry and reads no index beyond the sentinel of its pattern.
C8_ReadsUpToSentinel ==
  /\ [](pc \in {"for_j_cond", "decode"} =>
          /\ j <= SentinelIndex(i)
          /\ \A m \in 0..(j - 1) : PatAt(i, m) # 0)
  /\ [][IndexSteps]_vars

\* the second pattern of the library has been read up to its sentinel, the
\* first one having been read up to its own in every pass before
C8_Witness ==
  pc = "budget_check" /\ i = 1 /\ j = SentinelIndex(i)

C10_OnlyHandlerWrites ==
  [][/\ Main => ticks' = ticks
     /\ ticks' < ticks => ticks = Word - 1]_vars

\* C10 amended: the tick counter is written by the handler and by line 113 of
\* the main thread, which sets it to 0 on entering a pattern; no other step of
\* the main thread changes it, and it decreases only there or by wrapping.
C10_HandlerAndReset ==
  [][/\ Main /\ ~ResetTicks => ticks' = ticks
     /\ ResetTicks => ticks' = 0
     /\ ticks' < ticks => ResetTicks \/ ticks = Word - 1]_vars

\* pattern 1 has been entered and the counter, above 30000 before, is 0
C10_Witness ==
  pc = "for_j_init" /\ i = 1 /\ ticks = 0


\* C11: every value written to the compare register, by an instant transition
\* or by an iteration of a fade, lies in [0, 127].
C11_WritesInRange ==
  /\ OCR0A \in 0..FullOn
  /\ pc = "write_ocr" => value \in 0..FullOn

\* a dimming fade has written the largest value, 127, in its first iteration
C11_Witness ==
  pc = "sei" /\ kind = "fade" /\ ~sign /\ nWrites = 1 /\ OCR0A = FullOn


\* C12: the acceleration table that the fade loop reads has 6 entries, the
\* first 0, the last 255, and its interior entries (indices 1 to 4) are
\* strictly increasing.
C12_TableWellFormed ==
  pc = "fade_body" =>
    /\ NumPoints = 6
    /\ AccAt(0) = 0
    /\ AccAt(NumPoints - 1) = 255
    /\ \A n \in 1..(NumPoints - 3) : AccAt(n) < AccAt(n + 1)

\* the statements between the end of a pass and the decoding of the first
\* instruction of the next one
BoundaryPcs ==
  {"budget_check", "for_i_next", "reset_ticks", "for_j_init", "for_j_cond"}

\* a step taken at one of these statements writes neither the logical state
\* nor the compare register and leads to another of them or to the decoding
BoundaryStep ==
  (pc \in BoundaryPcs) =>
    /\ state' = state
    /\ OCR0A' = OCR0A
    /\ pc' \in (BoundaryPcs \cup {"decode"})

\* C13: from the end of the last pass of a pattern to the decoding of the
\* first instruction of the next pattern no step writes the logical state or
\* the compare register.
C13_SwitchKeepsLed == [][BoundaryStep]_vars

\* the first instruction of pattern 1 is about to be decoded with the
\* register as the last fade of pattern 0 left it
C13_Witness ==
  pc = "decode" /\ i = 1 /\ j = 0 /\ elapsed = 0 /\ OCR0A = 1 /\ ~state


\* the statements between cli() and sei() of setPwmDutyCycle
GuardedPcs == {"write_ocr", "sei"}

\* the handler does not run between cli() and sei()
NoTickInWrite == ticks' # ticks => pc \notin GuardedPcs

\* C14: the tick handler never runs between the cli() and the sei() of a
\* brightness write, and interrupts are enabled again when the write returns.
C14_WriteGuarded ==
  /\ [](pc \in GuardedPcs => ~SREG_I)
  /\ [](pc = "returned" => SREG_I /\ nWrites = 1 /\ OCR0A = value)
  /\ [][NoTickInWrite]_vars

\* a write has returned and the handler has run once around it
C14_Witness ==
  pc = "returned" /\ SREG_I /\ sinceCall = 1 /\ OCR0A = FullOn /\ nWrites = 1


\* C15: when an eased transition starts (its loop not yet entered), the
\* compare register holds the boundary opposite to the target: 0 before
\* brightening, 127 before dimming.
C15_FadeStartsAtBoundary ==
  (kind = "fade" /\ pc = "fade_cond" /\ nWrites = 0) =>
    OCR0A = (IF sign THEN 0 ELSE FullOn)


\* patterns follow each other in library order
LibraryOrder == i' # i => i' = (i + 1) % NumPatterns

\* the statements of sleep()
SleepPcs == {"sleep_begin", "sleep_cpu", "sleep_check"}

\* C16: with tick events arriving forever the main thread is again and again
\* outside sleep() (every call returns), at the sentinel of a pass and leaving
\* a pattern, and each of the 9 patterns starts infinitely often, in library
\* order.
C16_RunsForever ==
  /\ []<>(pc \notin SleepPcs)
  /\ []<>(pc = "budget_check")
  /\ []<>(pc = "for_i_next")
  /\ \A p \in 0..(NumPatterns - 1) : []<>(pc = "reset_ticks" /\ i = p)
  /\ [][LibraryOrder]_vars

\* patterns 0 and 1 have been left and pattern 2 starts
C16_Witness ==
  pc = "reset_ticks" /\ i = 2 /\ elapsed >= PATTERN_DURATION


\* an increment of the counter does not wrap
NoWrapStep == (ticks' # ticks /\ ~ResetTicks) => ticks' = ticks + 1

\* C17: while a pattern plays the 16-bit counter does not wrap: it equals the
\* number of ticks since the pattern was entered, every increment is by one
\* without overflow, and at every call of sleep() ticks + delay is below
\* 65536, so the deadline in sleep() is not a wrapped value.
C17_NoWrap ==
  /\ [](ticks = elapsed /\ ticks < Word)
  /\ [](pc = "sleep_begin" => ticks + sleepDelay < Word)
  /\ [](pc \in {"sleep_cpu", "sleep_check"} => end < Word /\ end >= sleepDelay)
  /\ [][NoWrapStep]_vars

\* the last pass of pattern 0 has ended over the budget
C17_Witness ==
  pc = "budget_check" /\ i = 0 /\ ticks > PATTERN_DURATION /\ ticks = elapsed


\* C18: at every pass boundary, the start of a pattern included, the logical
\* state is off, and the first instruction of every pass is executed as a
\* transition to on, never as a pure delay.
C18_PassStartsOff ==
  /\ pc \in {"budget_check", "for_i_next", "reset_ticks", "for_j_init"} => ~state
  /\ (pc = "dispatch" /\ j = 0) => sign /\ ~state
  /\ (j = 0 /\ pc \notin (BoundaryPcs \cup {"decode", "dispatch"})) =>
       sign /\ kind \in {"instant", "fade"}

\* the first instruction of a later pass of pattern 1 is dispatched
C18_Witness ==
  pc = "dispatch" /\ j = 0 /\ i = 1 /\ elapsed > 0 /\ sign /\ ~state


\* the loop index grows at the end of an iteration
IndexGrows == (pc = "fade_inc") => (k' > k /\ k' = k + step)

\* C19: in every iteration of a fade the step is at least 1 and the table
\* index read (step when brightening, step - 1 when dimming) lies in 0..5, so
\* the 8-bit index k grows strictly without wrapping and the loop ends after
\* at most 127 iterations.
C19_FadeLoopEnds ==
  /\ [](pc = "fade_body" =>
          /\ step >= 1
          /\ (IF sign THEN step ELSE step - 1) \in 0..(NumPoints - 1))
  /\ [](pc = "fade_inc" => step >= 1 /\ k + step < Byte)
  /\ [](kind = "fade" => nWrites <= Levels - 1)
  /\ [][IndexGrows]_vars

\* a dimming fade has ended with the step at 1 and k at 128
C19_Witness ==
  FadeDone /\ ~sign /\ step = 1 /\ k = Levels /\ delay = MinFade



\* C20: with every access of the main thread to the 16-bit counter made of two
\* byte accesses and the handler running between them, the deadline of
\* sleep() is computed from a value the counter held since the call began, and
\* when the write of line 113 is complete the counter holds the number of
\* ticks delivered since the write began.
C20_NoTornAccess ==
  /\ pc \in {"sleep_cpu", "sleep_check", "halt"} =>
       \E h \in 0..sinceCall : end = (ticks - h + sleepDelay) % Word
  /\ pc = "for_j_init" => ticks = sinceCall

====
